---- MODULE Spec2Model ----
(***************************************************************************)
(* Reactive attributes (reactivetools.RA): a data descriptor whose value   *)
(* is supplied directly or derived lazily from other reactive attributes,  *)
(* with invalidation of derived values when an upstream attribute changes. *)
(*                                                                         *)
(* The model follows src/reactivetools/__init__.py.  A class body is a     *)
(* sequence of RA objects in definition order; __set_name__ binds them one *)
(* by one and builds the class-level _ra_relationships; then __get__,      *)
(* __set__ and __delete__ run on the instances.  The two earlier variants *)
(* of the package are modelled beside it: lazydescriptor.LazyDesc and      *)
(* lazyfield.LazyField.                                                    *)
(***************************************************************************)
EXTENDS Integers, Sequences, FiniteSets, TLC

(***************************************************************************)
(* Bounds of the model.                                                    *)
(***************************************************************************)
\* the raw values a caller writes are 1..MaxVal
MaxVal == 2

RawVals == 1..MaxVal

(***************************************************************************)
(* Values.  A slot or a default is a record [k, v]: the sentinel _NOTHING, *)
(* a realized value v, a Thunk whose callable yields v, or (as a default   *)
(* only) a Method whose body adds v to the attributes it reads.            *)
(***************************************************************************)
NOTHING == [k |-> "NOTHING", v |-> 0]

Raw(n) == [k |-> "raw", v |-> n]

Thunk(n) == [k |-> "Thunk", v |-> n]

\* a Method whose body reads the attributes in reads and adds n to their sum
Method(n, reads) == [k |-> "Method", v |-> n, reads |-> reads]

\* the constants of the test class's methods
my_normal == 13

\* what the thunk a caller writes yields: my_int=thunk(lambda: 12)
thunk_value == 12

more_adding_const == 12

\* the defaults of the docstring examples
thunk_default == 2

raw_default == 1

\* RA.__init__: the fields of a descriptor
RA(nm, default, depends) ==
    [name      |-> nm,
     default   |-> default,
     depends   |-> depends,
     is_thunk  |-> default.k = "Thunk",
     is_method |-> default.k = "Method"]

\* tests/test_all.py MyTestClass: my_int, add_numbers, more_adding
MyTestClass ==
    << RA("my_int", NOTHING, <<>>),
       RA("add_numbers", Method(my_normal, <<"my_int">>), <<"my_int">>),
       RA("more_adding", Method(more_adding_const, <<"add_numbers">>),
          <<"add_numbers">>) >>

\* a diamond: two methods over one attribute and a method over both, as
\* script.py's rproperty(my_int, my_dep) with two dependencies
Diamond ==
    << RA("a", NOTHING, <<>>),
       RA("b", Method(my_normal, <<"a">>), <<"a">>),
       RA("c", Method(more_adding_const, <<"a">>), <<"a">>),
       RA("d", Method(my_normal, <<"b", "c">>), <<"b", "c">>) >>

\* the docstring examples: rattr(default="my-default"),
\* rattr(default=thunk(lambda: 2)), and a method over both
Defaults ==
    << RA("p", Raw(raw_default), <<>>),
       RA("q", Thunk(thunk_default), <<>>),
       RA("r", Method(my_normal, <<"p", "q">>), <<"p", "q">>) >>

\* a method that declares a dependency its body does not read
Unread ==
    << RA("u", NOTHING, <<>>),
       RA("w", Method(my_normal, <<>>), <<"u">>) >>

\* a descriptor that lists itself among its dependencies
SelfRelated ==
    << RA("x", NOTHING, <<>>),
       RA("y", Method(my_normal, <<"x">>), <<"x", "y">>) >>

\* a Thunk default and a raw default declared with a dependency: RA.__init__
\* takes depends whatever the default is
DefaultsDepend ==
    << RA("t", NOTHING, <<>>),
       RA("s", Thunk(thunk_default), <<"t">>),
       RA("v", Raw(raw_default), <<"t">>) >>

Classes == {MyTestClass, Diamond, Defaults, Unread, DefaultsDepend, SelfRelated}

VARIABLES
    cls,                   \* the class body being defined: a sequence of RA
    bound,                 \* how many descriptors __set_name__ has bound
    status,                \* "defining", "defined", or "error" (bind raised)
    has_ra_relationships,  \* hasattr(owner, "_ra_relationships")
    ra_relationships,      \* owner._ra_relationships: name -> dependents,
                           \* each entry in the iteration order of its set
    objs,                  \* the instances constructed
    slots,                 \* slots[o][n]: the value under the private name
    has_autoset,           \* hasattr(obj, "_ra_methods_autoset")
    ra_methods_autoset,    \* obj._ra_methods_autoset
    EMPTY_SET,             \* the module-level _EMPTY_SET
    origin,                \* history: how the value of slots[o][n] got there,
                           \* "none", "set" (written by the caller), "raw"
                           \* (the raw default), "Thunk" or "Method" (the
                           \* attribute's own default, evaluated)
    last,                  \* the last call: what was called and what it gave
    lazydesc,              \* a lazydescriptor.LazyDesc declared like the
                           \* class's first attribute: its _value and _lazy
    lazy_last              \* what the last call on the LazyDesc gave

vars == <<cls, bound, status, has_ra_relationships, ra_relationships, objs,
          slots, has_autoset, ra_methods_autoset, EMPTY_SET, origin, last,
          lazydesc, lazy_last>>

Names == {cls[k].name : k \in 1..Len(cls)}

\* the descriptor bound under a name
Attr(n) == cls[CHOOSE k \in 1..Len(cls) : cls[k].name = n]

Min(a, b) == IF a < b THEN a ELSE b

InsertAt(s, p, x) ==
    SubSeq(s, 1, Min(p, Len(s))) \o <<x>> \o SubSeq(s, Min(p, Len(s)) + 1, Len(s))

InSeq(x, s) == \E k \in 1..Len(s) : s[k] = x

RECURSIVE SetToSeq(_)
SetToSeq(S) ==
    IF S = {} THEN <<>>
    ELSE LET x == CHOOSE y \in S : TRUE IN <<x>> \o SetToSeq(S \ {x})

(***************************************************************************)
(* RA.__set_name__                                                         *)
(***************************************************************************)
\* the loop over self.depends: rel is the registry so far, pos[k] the place
\* the set's iteration order gives the added name in the k-th entry
RECURSIVE RelateUnchecked(_, _, _, _, _)
RelateUnchecked(rel, depends, k, nm, pos) ==
    IF k > Len(depends) THEN [rel |-> rel, ok |-> TRUE]
    ELSE LET key == depends[k]
             r1  == IF key \in DOMAIN rel THEN rel ELSE rel @@ (key :> <<>>)
             r2  == IF InSeq(nm, r1[key]) THEN r1
                    ELSE [r1 EXCEPT ![key] = InsertAt(@, pos[k], nm)]
         IN RelateUnchecked(r2, depends, k + 1, nm, pos)

RECURSIVE Relate(_, _, _, _, _)
Relate(rel, depends, k, nm, pos) ==
    IF k > Len(depends) THEN [rel |-> rel, ok |-> TRUE]
    ELSE IF depends[k] = nm THEN [rel |-> rel, ok |-> FALSE]
    ELSE LET key == depends[k]
             r1  == IF key \in DOMAIN rel THEN rel ELSE rel @@ (key :> <<>>)
             r2  == IF InSeq(nm, r1[key]) THEN r1
                    ELSE [r1 EXCEPT ![key] = InsertAt(@, pos[k], nm)]
         IN Relate(r2, depends, k + 1, nm, pos)

SetName ==
    /\ status = "defining"
    /\ bound < Len(cls)
    /\ LET ra == cls[bound + 1] IN
       \E pos \in [1..Len(ra.depends) -> 0..bound] :
         LET r == Relate(ra_relationships, ra.depends, 1, ra.name, pos) IN
           /\ has_ra_relationships' = TRUE
           /\ ra_relationships' = r.rel
           /\ bound' = bound + 1
           /\ status' = IF ~r.ok THEN "error"
                        ELSE IF bound + 1 = Len(cls) THEN "defined"
                        ELSE "defining"
    /\ last' = [last EXCEPT !.op = "set_name", !.tick = 1 - @]
    /\ UNCHANGED <<cls, objs, slots, has_autoset, ra_methods_autoset,
                   EMPTY_SET, origin, lazydesc, lazy_last>>

(***************************************************************************)
(* One instance's state, as the descriptor's methods see it: the private   *)
(* slots, the instance's _ra_methods_autoset if it has one, the shared      *)
(* _EMPTY_SET that stands in when it has none, and the class's             *)
(* _ra_relationships, which the instance reaches as obj._ra_relationships. *)
(***************************************************************************)
Heap(o) ==
    [slot    |-> slots[o],
     has     |-> has_autoset[o],
     autoset |-> ra_methods_autoset[o],
     EMPTY   |-> EMPTY_SET,
     origin  |-> origin[o],
     rel     |-> ra_relationships]

\* setattr(obj, self.private_name, value); by says where the value is from
SetPrivateForcing(h, n, value, by) ==
    [h EXCEPT !.slot[n] = Raw(value.v), !.origin[n] = by]

SetPrivate(h, n, value, by) ==
    [h EXCEPT !.slot[n] = value, !.origin[n] = by]

\* whether delattr(obj, self.private_name) finds the slot
HasPrivateAlways(h, n) == TRUE

HasPrivate(h, n) == h.slot[n] # NOTHING

\* delattr(obj, self.private_name), when the slot is there
DelPrivateKeeps(h, n) == h

DelPrivate(h, n) == [h EXCEPT !.slot[n] = NOTHING, !.origin[n] = "none"]

\* getattr(obj, "_ra_methods_autoset", _EMPTY_SET)
MethodsAutoset(h) == IF h.has THEN h.autoset ELSE h.EMPTY

\* methods_autoset.discard(self.name), on whichever set that is
DiscardNothing(h, n) == h

Discard(h, n) ==
    IF h.has THEN [h EXCEPT !.autoset = @ \ {n}]
    ELSE [h EXCEPT !.EMPTY = @ \ {n}]

\* if not hasattr(obj, "_ra_methods_autoset"): obj._ra_methods_autoset = set()
\* obj._ra_methods_autoset.add(self.name)
AutosetAddNothing(h, n) == h

AutosetAddShared(h, n) ==
    IF h.has THEN [h EXCEPT !.autoset = @ \cup {n}]
    ELSE [h EXCEPT !.EMPTY = @ \cup {n}]

AutosetAdd(h, n) ==
    [h EXCEPT !.has = TRUE, !.autoset = (IF h.has THEN @ ELSE {}) \cup {n}]

\* obj._ra_relationships.get(self.name, _EMPTY_SET): what the lookup leaves
\* of the registry (dict.get inserts nothing) ...
RelationshipsSetdefault(rel, n) ==
    IF n \in DOMAIN rel THEN rel ELSE rel @@ (n :> <<>>)

RelationshipsGet(rel, n) == rel

\* ... and what it returns, in iteration order
DependentsNone(h, n) == <<>>

Dependents(h, n) ==
    IF n \in DOMAIN h.rel THEN h.rel[n]
    ELSE SetToSeq(h.EMPTY)

\* the instance state after the lookup
LookedUp(h, n) == [h EXCEPT !.rel = RelationshipsGet(@, n)]

\* if dependent in methods_autoset
IsAutosetAlways(h, dependent) == TRUE

IsAutosetNever(h, dependent) == FALSE

IsAutoset(h, dependent) == dependent \in MethodsAutoset(h)

(***************************************************************************)
(* RA.__delete__ and the loop over the dependents that ends __set__ and    *)
(* __delete__.  delattr(obj, dependent) is the dependent's own __delete__; *)
(* an AttributeError it raises is not caught and ends the whole call.      *)
(* trace lists the dependents delattr was called on, in order.             *)
(***************************************************************************)
RECURSIVE InvalidateShallow(_, _, _, _)
InvalidateShallow(h, deps, k, trace) ==
    IF k > Len(deps) THEN [h |-> h, ok |-> TRUE, trace |-> trace]
    ELSE IF IsAutoset(h, deps[k])
         THEN InvalidateShallow(Discard(DelPrivate(h, deps[k]), deps[k]), deps,
                                k + 1, Append(trace, deps[k]))
         ELSE InvalidateShallow(h, deps, k + 1, trace)

RECURSIVE RA_delete(_, _, _), Invalidate(_, _, _, _)
RA_delete(h, n, trace) ==
    IF ~HasPrivate(h, n) THEN [h |-> h, ok |-> FALSE, trace |-> trace]
    ELSE Invalidate(LookedUp(Discard(DelPrivate(h, n), n), n),
                    Dependents(h, n), 1, trace)

Invalidate(h, deps, k, trace) ==
    IF k > Len(deps) THEN [h |-> h, ok |-> TRUE, trace |-> trace]
    ELSE IF IsAutoset(h, deps[k])
         THEN LET r == RA_delete(h, deps[k], Append(trace, deps[k])) IN
                IF r.ok THEN Invalidate(r.h, deps, k + 1, r.trace) ELSE r
         ELSE Invalidate(h, deps, k + 1, trace)

\* RA.__set__
RA_set(h, n, value) ==
    Invalidate(LookedUp(Discard(SetPrivate(h, n, value, "set"), n), n),
               Dependents(h, n), 1, <<>>)

(***************************************************************************)
(* RA.__get__ on an instance.  calls lists the computations invoked, in    *)
(* order: <<n, "default">> for n's Thunk or Method default, <<n, "set">>   *)
(* for a Thunk that was written to n.  A method body reads its attributes  *)
(* in order and adds its constant (add_numbers: self.my_normal +           *)
(* self.my_int); a read that raises ends the method.                       *)
(***************************************************************************)
\* the slot holds a Thunk: force it and store the result
ForceThunkUnstored(h, n, obj_value) ==
    [h |-> h, ok |-> TRUE, v |-> obj_value.v, calls |-> << <<n, "set">> >>]

ForceThunkInvalidating(h, n, obj_value) ==
    [h |-> RA_set(h, n, Raw(obj_value.v)).h, ok |-> TRUE, v |-> obj_value.v,
     calls |-> << <<n, "set">> >>]

ForceThunk(h, n, obj_value) ==
    [h |-> SetPrivate(h, n, Raw(obj_value.v), h.origin[n]), ok |-> TRUE,
     v |-> obj_value.v, calls |-> << <<n, "set">> >>]

\* the slot holds a realized value: return it
ReturnStoredDefault(h, n, obj_value) ==
    [h |-> h, ok |-> TRUE, v |-> Attr(n).default.v, calls |-> <<>>]

ReturnStored(h, n, obj_value) ==
    [h |-> h, ok |-> TRUE, v |-> obj_value.v, calls |-> <<>>]

\* the default is a Thunk: realize it and store the result
RealizeThunkDefaultAutoset(h, n, default) ==
    [h |-> AutosetAdd(SetPrivate(h, n, Raw(default.v), "Thunk"), n),
     ok |-> TRUE, v |-> default.v, calls |-> << <<n, "default">> >>]

RealizeThunkDefault(h, n, default) ==
    [h |-> SetPrivate(h, n, Raw(default.v), "Thunk"), ok |-> TRUE,
     v |-> default.v, calls |-> << <<n, "default">> >>]

\* the default is a raw value: store it and return it
StoreRawDefaultAutoset(h, n, default) ==
    [h |-> AutosetAdd(SetPrivate(h, n, default, "raw"), n), ok |-> TRUE,
     v |-> default.v, calls |-> <<>>]

StoreRawDefault(h, n, default) ==
    [h |-> SetPrivate(h, n, default, "raw"), ok |-> TRUE, v |-> default.v,
     calls |-> <<>>]

\* the default is a Method and its body returned r: store and mark autoset
StoreMethodResultUnstored(r, n) == r

StoreMethodResult(r, n) ==
    [r EXCEPT !.h = AutosetAdd(SetPrivate(r.h, n, Raw(r.v), "Method"), n)]

\* the slot is unset and there is no default: raise AttributeError("Not set")
RaiseNotSetReturning(h, n) == [h |-> h, ok |-> TRUE, v |-> 0, calls |-> <<>>]

RaiseNotSet(h, n) == [h |-> h, ok |-> FALSE, v |-> 0, calls |-> <<>>]

RECURSIVE RA_get(_, _), MethodBody(_, _, _, _, _)
MethodBody(h, reads, k, sum, calls) ==
    IF k > Len(reads) THEN [h |-> h, ok |-> TRUE, v |-> sum, calls |-> calls]
    ELSE LET r == RA_get(h, reads[k]) IN
           IF r.ok THEN MethodBody(r.h, reads, k + 1, sum + r.v, calls \o r.calls)
           ELSE [h |-> r.h, ok |-> FALSE, v |-> 0, calls |-> calls \o r.calls]

RA_get(h, n) ==
    LET ra        == Attr(n)
        obj_value == h.slot[n]
    IN
    IF obj_value = NOTHING THEN
        IF ra.default.k = "NOTHING" THEN RaiseNotSet(h, n)
        ELSE IF ra.is_thunk THEN RealizeThunkDefault(h, n, ra.default)
        ELSE IF ra.is_method THEN
            LET r == MethodBody(h, ra.default.reads, 1, ra.default.v,
                                << <<n, "default">> >>)
            IN IF r.ok THEN StoreMethodResult(r, n) ELSE r
        ELSE StoreRawDefault(h, n, ra.default)
    ELSE IF obj_value.k = "Thunk" THEN ForceThunk(h, n, obj_value)
    ELSE ReturnStored(h, n, obj_value)

(***************************************************************************)
(* The calls on an instance.                                               *)
(***************************************************************************)
\* history: the attributes in trace whose value, before the call, was one
\* the caller had written
WrittenIn(o, trace) == {m \in Names : InSeq(m, trace) /\ origin[o][m] = "set"}

\* the instance's state after a call
Store(o, h) ==
    /\ slots' = [slots EXCEPT ![o] = h.slot]
    /\ has_autoset' = [has_autoset EXCEPT ![o] = h.has]
    /\ ra_methods_autoset' = [ra_methods_autoset EXCEPT ![o] = h.autoset]
    /\ EMPTY_SET' = h.EMPTY
    /\ origin' = [origin EXCEPT ![o] = h.origin]
    /\ ra_relationships' = h.rel

\* what a caller may write: a raw value or a Thunk (test_all.py writes both;
\* script.py, whose shape the diamond has, writes raw values only)
Inputs ==
    {Raw(v) : v \in RawVals} \cup (IF cls = Diamond THEN {} ELSE {Thunk(thunk_value)})

GetRA(o, n) ==
    /\ status = "defined"
    /\ LET r == RA_get(Heap(o), n) IN
         /\ Store(o, r.h)
         /\ last' = [op |-> "get", obj |-> o, attr |-> n, value |-> NOTHING,
                     ok |-> r.ok, ret |-> r.v, calls |-> r.calls,
                     trace |-> <<>>, was |-> origin[o][n], written |-> {},
                     tick |-> 1 - last.tick]
    /\ UNCHANGED <<cls, bound, status, has_ra_relationships, objs>>

Get(o, n) == GetRA(o, n) /\ UNCHANGED <<lazydesc, lazy_last>>

SetRA(o, n, value) ==
    /\ status = "defined"
    /\ LET r == RA_set(Heap(o), n, value) IN
         /\ Store(o, r.h)
         /\ last' = [op |-> "set", obj |-> o, attr |-> n, value |-> value,
                     ok |-> r.ok, ret |-> 0, calls |-> <<>>,
                     trace |-> r.trace, was |-> origin[o][n],
                     written |-> WrittenIn(o, r.trace),
                     tick |-> 1 - last.tick]
    /\ UNCHANGED <<cls, bound, status, has_ra_relationships, objs>>

Set(o, n, value) == SetRA(o, n, value) /\ UNCHANGED <<lazydesc, lazy_last>>

Delete(o, n) ==
    /\ status = "defined"
    /\ LET r == RA_delete(Heap(o), n, <<>>) IN
         /\ Store(o, r.h)
         /\ last' = [op |-> "delete", obj |-> o, attr |-> n, value |-> NOTHING,
                     ok |-> r.ok, ret |-> 0, calls |-> <<>>,
                     trace |-> r.trace, was |-> origin[o][n],
                     written |-> WrittenIn(o, r.trace),
                     tick |-> 1 - last.tick]
    /\ UNCHANGED <<cls, bound, status, has_ra_relationships, objs, lazydesc,
                   lazy_last>>

\* no call yet.  ok is FALSE when the call raised AttributeError; was is the
\* origin of the attribute's value before the call; tick tells one call from
\* the next
NoCall ==
    [op |-> "none", obj |-> 0, attr |-> "", value |-> NOTHING, ok |-> TRUE,
     ret |-> 0, calls |-> <<>>, trace |-> <<>>, was |-> "none",
     written |-> {}, tick |-> 0]

(***************************************************************************)
(* lazydescriptor.LazyDesc: a descriptor that keeps the value in its own   *)
(* fields _value and _lazy.  A deferred value is a LazyDesc made by        *)
(* lazy(f); calling it calls f.                                            *)
(***************************************************************************)
SENTINEL == [k |-> "SENTINEL", v |-> 0]

\* LazyDesc.__init__, declared with the default the reactive attribute has
\* (none, a raw value, or lazy(f) for thunk(f))
LazyDesc(default) ==
    [value |-> IF default = NOTHING THEN SENTINEL ELSE default,
     lazy  |-> default.k = "Thunk"]

\* LazyDesc.__get__ on an instance: the descriptor afterwards, whether the
\* call returned, what it returned and how often it called the deferred
\* computation
LazyDesc_get(d) ==
    IF d.value = SENTINEL THEN [d |-> d, ok |-> FALSE, ret |-> 0, ncalls |-> 0]
    ELSE IF d.lazy
         THEN [d |-> [value |-> Raw(d.value.v), lazy |-> FALSE], ok |-> TRUE,
               ret |-> d.value.v, ncalls |-> 1]
         ELSE [d |-> d, ok |-> TRUE, ret |-> d.value.v, ncalls |-> 0]

\* LazyDesc.__set__
LazyDesc_set(d, value) == [value |-> value, lazy |-> value.k = "Thunk"]

NoLazyCall == [ok |-> TRUE, ret |-> 0, ncalls |-> 0]

\* a class body about to be bound, and instances with nothing stored
InitWith(C, O) ==
    /\ cls \in C
    /\ bound = 0
    /\ status = "defining"
    /\ has_ra_relationships = FALSE
    /\ ra_relationships = <<>>
    /\ objs = O
    /\ slots = [o \in O |-> [n \in Names |-> NOTHING]]
    /\ has_autoset = [o \in O |-> FALSE]
    /\ ra_methods_autoset = [o \in O |-> {}]
    /\ EMPTY_SET = {}
    /\ origin = [o \in O |-> [n \in Names |-> "none"]]
    /\ last = NoCall
    /\ lazydesc = LazyDesc(cls[1].default)
    /\ lazy_last = NoLazyCall

Init == InitWith(Classes, {1})

Next ==
    \/ SetName
    \/ \E o \in objs, n \in Names : Get(o, n)
    \/ \E o \in objs, n \in Names, value \in Inputs : Set(o, n, value)
    \/ \E o \in objs, n \in Names : Delete(o, n)

Spec == Init /\ [][Next]_vars

(***************************************************************************)
(* A class with one attribute that has no dependencies, its instances, and *)
(* the same attribute declared as a LazyDesc: every read and write is made *)
(* on both.                                                                *)
(***************************************************************************)
PlainAttr == << RA("x", NOTHING, <<>>) >>

PlainRawDefault == << RA("x", Raw(raw_default), <<>>) >>

PlainThunkDefault == << RA("x", Thunk(thunk_default), <<>>) >>

BothGet(o) ==
    /\ GetRA(o, cls[1].name)
    /\ LET r == LazyDesc_get(lazydesc) IN
         /\ lazydesc' = r.d
         /\ lazy_last' = [ok |-> r.ok, ret |-> r.ret, ncalls |-> r.ncalls]

BothSet(o, value) ==
    /\ SetRA(o, cls[1].name, value)
    /\ lazydesc' = LazyDesc_set(lazydesc, value)
    /\ lazy_last' = NoLazyCall

InitLazy == InitWith({PlainAttr, PlainRawDefault, PlainThunkDefault}, {1, 2})

NextLazy ==
    \/ SetName
    \/ \E o \in objs : BothGet(o)
    \/ \E o \in objs, value \in Inputs : BothSet(o, value)

SpecLazy == InitLazy /\ [][NextLazy]_vars

(***************************************************************************)
(* A registry with a cycle between two Method attributes.  __set_name__    *)
(* takes the registry the owner inherits (hasattr finds the base class's)  *)
(* and adds to it: a base class declares x, a over x, and b over x and a;  *)
(* a subclass declares a again, over x and the base's b.  The state is the *)
(* subclass once defined: x has the dependents a and b, a has b, b has a.  *)
(***************************************************************************)
Cyclic ==
    << RA("x", NOTHING, <<>>),
       RA("a", Method(my_normal, <<"x">>), <<"x", "b">>),
       RA("b", Method(more_adding_const, <<"x">>), <<"x", "a">>) >>

InitCyclic ==
    /\ cls = Cyclic
    /\ bound = Len(cls)
    /\ status = "defined"
    /\ has_ra_relationships = TRUE
    /\ \E order \in {<<"a", "b">>, <<"b", "a">>} :
         ra_relationships = [n \in Names |->
                               IF n = "x" THEN order
                               ELSE IF n = "a" THEN <<"b">> ELSE <<"a">>]
    /\ objs = {1}
    /\ slots = [o \in objs |-> [n \in Names |-> NOTHING]]
    /\ has_autoset = [o \in objs |-> FALSE]
    /\ ra_methods_autoset = [o \in objs |-> {}]
    /\ EMPTY_SET = {}
    /\ origin = [o \in objs |-> [n \in Names |-> "none"]]
    /\ last = NoCall
    /\ lazydesc = LazyDesc(cls[1].default)
    /\ lazy_last = NoLazyCall

NextCyclic ==
    \/ \E o \in objs, n \in Names : Get(o, n)
    \/ \E o \in objs, n \in Names, value \in Inputs : Set(o, n, value)
    \/ \E o \in objs, n \in Names : Delete(o, n)

SpecCyclic == InitCyclic /\ [][NextCyclic]_vars

(***************************************************************************)
(* lazyfield.LazyField: the same declarations and the same binding         *)
(* (__set_name__ builds owner._relationships as RA's builds                *)
(* _ra_relationships), but no autoset set: __set__ and __delete__ call     *)
(* delattr on every dependent and pass over the AttributeError of one that *)
(* has no stored slot.                                                     *)
(***************************************************************************)
\* obj._relationships.get(self.name, set()), in iteration order
LF_Dependents(h, n) == IF n \in DOMAIN h.rel THEN h.rel[n] ELSE <<>>

RECURSIVE LF_delete(_, _, _), LF_Invalidate(_, _, _, _)
RECURSIVE LF_InvalidateUncaught(_, _, _, _)

\* LazyField.__delete__
LF_delete(h, n, trace) ==
    IF ~HasPrivate(h, n) THEN [h |-> h, ok |-> FALSE, trace |-> trace]
    ELSE LF_Invalidate(DelPrivate(h, n), LF_Dependents(h, n), 1, trace)

LF_InvalidateUncaught(h, deps, k, trace) ==
    IF k > Len(deps) THEN [h |-> h, ok |-> TRUE, trace |-> trace]
    ELSE LET r == LF_delete(h, deps[k], Append(trace, deps[k])) IN
           IF r.ok THEN LF_InvalidateUncaught(r.h, deps, k + 1, r.trace) ELSE r

\* for dependent in ...: try: delattr(obj, dependent)
\*                       except AttributeError: pass
LF_Invalidate(h, deps, k, trace) ==
    IF k > Len(deps) THEN [h |-> h, ok |-> TRUE, trace |-> trace]
    ELSE LET r == LF_delete(h, deps[k], Append(trace, deps[k])) IN
           LF_Invalidate(r.h, deps, k + 1, r.trace)

\* LazyField.__set__
LF_set(h, n, value) ==
    LF_Invalidate(SetPrivate(h, n, value, "set"), LF_Dependents(h, n), 1, <<>>)

\* LazyField.__get__ on an instance.  A Thunk or Method default is
\* evaluated and stored; a raw default is returned and not stored.
RECURSIVE LF_get(_, _), LF_MethodBody(_, _, _, _, _)
LF_MethodBody(h, reads, k, sum, calls) ==
    IF k > Len(reads) THEN [h |-> h, ok |-> TRUE, v |-> sum, calls |-> calls]
    ELSE LET r == LF_get(h, reads[k]) IN
           IF r.ok THEN LF_MethodBody(r.h, reads, k + 1, sum + r.v,
                                      calls \o r.calls)
           ELSE [h |-> r.h, ok |-> FALSE, v |-> 0, calls |-> calls \o r.calls]

LF_get(h, n) ==
    LET field     == Attr(n)
        obj_value == h.slot[n]
    IN
    IF obj_value = NOTHING THEN
        IF field.default.k = "NOTHING" THEN
            [h |-> h, ok |-> FALSE, v |-> 0, calls |-> <<>>]
        ELSE IF field.is_method THEN
            LET r == LF_MethodBody(h, field.default.reads, 1, field.default.v,
                                   << <<n, "default">> >>)
            IN IF r.ok
               THEN [r EXCEPT !.h = SetPrivate(r.h, n, Raw(r.v), "Method")]
               ELSE r
        ELSE IF field.is_thunk THEN
            [h |-> SetPrivate(h, n, Raw(field.default.v), "Thunk"), ok |-> TRUE,
             v |-> field.default.v, calls |-> << <<n, "default">> >>]
        ELSE [h |-> h, ok |-> TRUE, v |-> field.default.v, calls |-> <<>>]
    ELSE IF obj_value.k = "Thunk" THEN
        [h |-> SetPrivate(h, n, Raw(obj_value.v), h.origin[n]), ok |-> TRUE,
         v |-> obj_value.v, calls |-> << <<n, "set">> >>]
    ELSE [h |-> h, ok |-> TRUE, v |-> obj_value.v, calls |-> <<>>]

FieldGet(o, n) ==
    /\ status = "defined"
    /\ LET r == LF_get(Heap(o), n) IN
         /\ Store(o, r.h)
         /\ last' = [op |-> "get", obj |-> o, attr |-> n, value |-> NOTHING,
                     ok |-> r.ok, ret |-> r.v, calls |-> r.calls,
                     trace |-> <<>>, was |-> origin[o][n], written |-> {},
                     tick |-> 1 - last.tick]
    /\ UNCHANGED <<cls, bound, status, has_ra_relationships, objs, lazydesc,
                   lazy_last>>

FieldSet(o, n, value) ==
    /\ status = "defined"
    /\ LET r == LF_set(Heap(o), n, value) IN
         /\ Store(o, r.h)
         /\ last' = [op |-> "set", obj |-> o, attr |-> n, value |-> value,
                     ok |-> r.ok, ret |-> 0, calls |-> <<>>,
                     trace |-> r.trace, was |-> origin[o][n],
                     written |-> WrittenIn(o, r.trace),
                     tick |-> 1 - last.tick]
    /\ UNCHANGED <<cls, bound, status, has_ra_relationships, objs, lazydesc,
                   lazy_last>>

FieldDelete(o, n) ==
    /\ status = "defined"
    /\ LET r == LF_delete(Heap(o), n, <<>>) IN
         /\ Store(o, r.h)
         /\ last' = [op |-> "delete", obj |-> o, attr |-> n, value |-> NOTHING,
                     ok |-> r.ok, ret |-> 0, calls |-> <<>>,
                     trace |-> r.trace, was |-> origin[o][n],
                     written |-> WrittenIn(o, r.trace),
                     tick |-> 1 - last.tick]
    /\ UNCHANGED <<cls, bound, status, has_ra_relationships, objs, lazydesc,
                   lazy_last>>

InitField == InitWith({MyTestClass, Diamond, Unread}, {1})

NextField ==
    \/ SetName
    \/ \E o \in objs, n \in Names : FieldGet(o, n)
    \/ \E o \in objs, n \in Names, value \in Inputs : FieldSet(o, n, value)
    \/ \E o \in objs, n \in Names : FieldDelete(o, n)

SpecField == InitField /\ [][NextField]_vars

\* two instances of one class
InitTwo == InitWith({Unread}, {1, 2})

SpecTwo == InitTwo /\ [][Next]_vars

(***************************************************************************)
(* Vocabulary of the properties.                                           *)
(***************************************************************************)
\* the step is the call op on attribute n of instance o
Called(op, o, n) ==
    /\ last'.tick # last.tick
    /\ last'.op = op
    /\ last'.obj = o
    /\ last'.attr = n

\* the instance's state after the step
HeapAfter(o) ==
    [slot    |-> slots'[o],
     has     |-> has_autoset'[o],
     autoset |-> ra_methods_autoset'[o],
     EMPTY   |-> EMPTY_SET',
     origin  |-> origin'[o],
     rel     |-> ra_relationships']

\* n is in the autoset set of the instance state h
Member(h, n) == h.has /\ n \in h.autoset

Count(x, s) == Cardinality({k \in 1..Len(s) : s[k] = x})

\* n's own default computation, or a Thunk written to n, is among calls
Invoked(n, calls) == InSeq(<<n, "default">>, calls) \/ InSeq(<<n, "set">>, calls)

\* D lists A among its dependencies
Declares(D, A) == InSeq(A, Attr(D).depends)

\* n has a Thunk or a Method default
Lazy(n) == Attr(n).is_thunk \/ Attr(n).is_method

\* the attributes upstream of n: its dependencies and theirs
RECURSIVE UpstreamTo(_, _)
UpstreamTo(n, fuel) ==
    IF fuel = 0 THEN {}
    ELSE LET direct == {m \in Names : Declares(n, m)} IN
           direct \cup UNION {UpstreamTo(m, fuel - 1) : m \in direct}

Upstream(m, n) == m \in UpstreamTo(n, Len(cls))

\* what D's method body yields over the slots of h
RECURSIVE SumSlots(_, _, _)
SumSlots(h, reads, k) ==
    IF k > Len(reads) THEN 0 ELSE h.slot[reads[k]].v + SumSlots(h, reads, k + 1)

MethodValue(h, D) == Attr(D).default.v + SumSlots(h, Attr(D).default.reads, 1)

\* the attributes n's Method reads, and the ones their Methods read
RECURSIVE ReadsOf(_, _)
ReadsOf(n, fuel) ==
    IF fuel = 0 \/ ~Attr(n).is_method THEN {}
    ELSE LET reads  == Attr(n).default.reads
             direct == {reads[k] : k \in 1..Len(reads)} IN
           direct \cup UNION {ReadsOf(m, fuel - 1) : m \in direct}

\* the attributes reachable from n along the edges of the registry rel
RECURSIVE RegistryFrom(_, _, _)
RegistryFrom(rel, n, fuel) ==
    IF fuel = 0 \/ n \notin DOMAIN rel THEN {}
    ELSE LET direct == {rel[n][k] : k \in 1..Len(rel[n])} IN
           direct \cup UNION {RegistryFrom(rel, m, fuel - 1) : m \in direct}

\* the attributes reachable from n along registry edges through attributes
\* that are all in the autoset set of h
RECURSIVE AutosetFrom(_, _, _)
AutosetFrom(h, n, fuel) ==
    IF fuel = 0 \/ n \notin DOMAIN h.rel THEN {}
    ELSE LET direct == {d \in {h.rel[n][k] : k \in 1..Len(h.rel[n])} :
                          Member(h, d)} IN
           direct \cup UNION {AutosetFrom(h, m, fuel - 1) : m \in direct}

\* the parts of the instance state, unchanged
InstanceUnchanged ==
    UNCHANGED <<slots, has_autoset, ra_methods_autoset, EMPTY_SET, origin>>

(***************************************************************************)
(* C1                                                                      *)
(***************************************************************************)
\* C1: invalidation correctness.  When a raw value is written to A while a
\* Method attribute D that declares A is autoset, the write unsets D and
\* takes it out of the autoset set, and a read of D made next invokes D's
\* Method once, returns the value computed from the slots as they then are,
\* A's being the value just written, and caches it.
C1_Invalidation ==
    [][\A o \in objs : \A A \in Names, D \in Names :
         (/\ Called("set", o, A)
          /\ last'.value.k = "raw"
          /\ Attr(D).is_method
          /\ Declares(D, A)
          /\ Member(Heap(o), D))
         => /\ last'.ok
            /\ slots'[o][D] = NOTHING
            /\ ~Member(HeapAfter(o), D)
            /\ LET r == RA_get(HeapAfter(o), D) IN
                 /\ r.ok
                 /\ Count(<<D, "default">>, r.calls) = 1
                 /\ r.h.slot[A] = last'.value
                 /\ r.v = MethodValue(r.h, D)
                 /\ r.h.slot[D] = Raw(r.v)
      ]_vars

\* a raw write has just unset a dependent that declares the written attribute
C1_Witness ==
    /\ last.op = "set"
    /\ last.value.k = "raw"
    /\ \E D \in Names :
         /\ Declares(D, last.attr)
         /\ InSeq(D, last.trace)
         /\ slots[last.obj][D] = NOTHING

(***************************************************************************)
(* C2                                                                      *)
(***************************************************************************)
\* C2: override protection.  While the value of a Method attribute D is one
\* the caller wrote, every call other than a write or delete of D itself
\* leaves D's value in place (a read only forces a written Thunk),
\* leaves D out of the autoset set and does not invoke D's Method; a read
\* of D returns the written value.
C2_OverrideProtection ==
    [][\A o \in objs : \A D \in Names :
         (/\ status = "defined"
          /\ Attr(D).is_method
          /\ origin[o][D] = "set"
          /\ ~(Called("set", o, D) \/ Called("delete", o, D)))
         => /\ origin'[o][D] = "set"
            /\ \/ slots'[o][D] = slots[o][D]
               \/ /\ last'.op = "get"
                  /\ slots[o][D].k = "Thunk"
                  /\ slots'[o][D] = Raw(slots[o][D].v)
            /\ ~Member(HeapAfter(o), D)
            /\ ~InSeq(<<D, "default">>, last'.calls)
            /\ ~InSeq(D, last'.trace)
            /\ Called("get", o, D) => (last'.ok /\ last'.ret = slots[o][D].v)
      ]_vars

\* an upstream attribute was written or deleted, its cascade ran, and the
\* overridden dependent still holds what the caller wrote
C2_Witness ==
    /\ last.op \in {"set", "delete"}
    /\ last.ok
    /\ \E D \in Names :
         /\ Attr(D).is_method
         /\ Declares(D, last.attr)
         /\ origin[last.obj][D] = "set"
         /\ slots[last.obj][D].k = "raw"

(***************************************************************************)
(* C3                                                                      *)
(***************************************************************************)
\* C3 as stated: the default computation of an attribute is invoked on the
\* first read after its slot becomes unset and on no later read until the
\* slot is unset again; reads unset nothing, so it is never invoked in two
\* reads in a row.
C3_Original ==
    [][\A n \in Names :
         ~(/\ Lazy(n)
           /\ last.op = "get"
           /\ last'.op = "get"
           /\ last'.obj = last.obj
           /\ InSeq(<<n, "default">>, last.calls)
           /\ InSeq(<<n, "default">>, last'.calls))
      ]_vars

\* C3: memoization.  For an attribute with a Thunk or Method default, a read
\* invokes the default computation exactly when the slot is unset, and then
\* once; a read that returns leaves a realized value in the slot, so no
\* later read invokes the computation until the slot is unset again.  (A
\* read whose computation raises stores nothing.)
C3_Memoization ==
    [][\A o \in objs : \A n \in Names :
         (Lazy(n) /\ last'.op = "get" /\ last'.obj = o)
         => /\ InSeq(<<n, "default">>, last'.calls)
                 => (slots[o][n] = NOTHING
                     /\ Count(<<n, "default">>, last'.calls) = 1)
            /\ (last'.attr = n /\ slots[o][n] = NOTHING)
                 => InSeq(<<n, "default">>, last'.calls)
            /\ (last'.attr = n /\ last'.ok)
                 => (slots'[o][n].k = "raw" /\ last'.ret = slots'[o][n].v)
            /\ (InSeq(<<n, "default">>, last'.calls) /\ last'.ok)
                 => slots'[o][n].k = "raw"
      ]_vars

\* a read of an attribute whose value its own default computed, served from
\* the slot with no computation
C3_Witness ==
    /\ last.op = "get"
    /\ last.ok
    /\ last.calls = <<>>
    /\ last.was \in {"Thunk", "Method"}

(***************************************************************************)
(* C4                                                                      *)
(***************************************************************************)
\* the events C4 names for n, of the step: a write to n, or a write or
\* delete of an attribute upstream of n while n is autoset
C4_NamedEvent(o, n) ==
    \/ Called("set", o, n)
    \/ /\ last'.op \in {"set", "delete"}
       /\ last'.obj = o
       /\ last'.attr # n
       /\ Upstream(last'.attr, n)
       /\ Member(Heap(o), n)

\* C4 as stated: if n's computation ran in the last call and this call is
\* none of the named events, a read of n made next does not run it again.
C4_Original ==
    [][\A o \in objs : \A n \in Names :
         (/\ status = "defined"
          /\ last.obj = o
          /\ last'.obj = o
          /\ Invoked(n, last.calls)
          /\ ~C4_NamedEvent(o, n))
         => ~Invoked(n, RA_get(HeapAfter(o), n).calls)
      ]_vars

\* C4: a computation of n (its default, or a Thunk written to it) runs only
\* while n's slot holds no realized value, at most once in a call, and a
\* read that returns leaves a realized value; the slot loses a realized
\* value only by a write to n, a delete of n, or a write or delete of an
\* upstream attribute while n is autoset.
C4_AtMostOnce ==
    [][\A o \in objs : \A n \in Names :
         (status = "defined" /\ last'.obj = o)
         => /\ Invoked(n, last'.calls)
                 => /\ slots[o][n].k # "raw"
                    /\ Count(<<n, "default">>, last'.calls)
                         + Count(<<n, "set">>, last'.calls) = 1
            /\ (Invoked(n, last'.calls) /\ last'.ok)
                 => slots'[o][n].k = "raw"
            /\ (slots[o][n].k = "raw" /\ slots'[o][n].k # "raw")
                 => (C4_NamedEvent(o, n) \/ Called("delete", o, n))
      ]_vars

\* an attribute whose value its own default computed has been deleted
C4_Witness ==
    /\ last.op = "delete"
    /\ last.ok
    /\ last.was \in {"Thunk", "Method"}
    /\ slots[last.obj][last.attr] = NOTHING

(***************************************************************************)
(* C5                                                                      *)
(***************************************************************************)
\* C5: deleting a derived attribute D whose value the caller wrote restores
\* derivation.  The delete unsets D; a read of D made next invokes D's
\* Method exactly once and, the attributes it reads being readable, returns
\* the value computed from their current values, caches it and marks D
\* autoset, so that a write to any attribute D declares unsets D again.
\* (The read raises only when some attribute without a default is unset.)
C5_DeleteRestores ==
    [][\A o \in objs : \A D \in Names :
         (/\ Called("delete", o, D)
          /\ Attr(D).is_method
          /\ origin[o][D] = "set")
         => /\ last'.ok
            /\ slots'[o][D] = NOTHING
            /\ LET r == RA_get(HeapAfter(o), D) IN
                 /\ Count(<<D, "default">>, r.calls) = 1
                 /\ ~r.ok => \E m \in Names :
                                /\ Attr(m).default.k = "NOTHING"
                                /\ slots'[o][m] = NOTHING
                 /\ r.ok =>
                      /\ r.v = MethodValue(r.h, D)
                      /\ r.h.slot[D] = Raw(r.v)
                      /\ r.h.origin[D] = "Method"
                      /\ Member(r.h, D)
                      /\ \A A \in Names, value \in Inputs :
                           Declares(D, A) =>
                             LET w == RA_set(r.h, A, value) IN
                               /\ w.ok
                               /\ w.h.slot[D] = NOTHING
                               /\ ~Member(w.h, D)
      ]_vars

\* an overridden derived attribute has just been deleted, and what it reads
\* is there to recompute it from
C5_Witness ==
    /\ last.op = "delete"
    /\ last.ok
    /\ last.was = "set"
    /\ Attr(last.attr).is_method
    /\ Len(Attr(last.attr).default.reads) > 0
    /\ \A k \in 1..Len(Attr(last.attr).default.reads) :
         slots[last.obj][Attr(last.attr).default.reads[k]].k = "raw"

(***************************************************************************)
(* C6                                                                      *)
(***************************************************************************)
\* C6 as stated: a name is in the autoset set if and only if its slot holds
\* the result of evaluating the attribute's own Thunk or Method default.
C6_Original ==
    \A o \in objs : \A n \in Names :
        Member(Heap(o), n) <=> origin[o][n] \in {"Thunk", "Method"}

\* C6: a name is in the autoset set if and only if its slot holds the result
\* of evaluating the attribute's own Method default and the attribute has
\* not been written since; values the caller wrote, raw defaults and the
\* results of Thunk defaults are never members.
C6_AutosetMembership ==
    \A o \in objs : \A n \in Names :
        /\ Member(Heap(o), n) <=> origin[o][n] = "Method"
        /\ origin[o][n] = "Method" => (Attr(n).is_method /\ slots[o][n].k = "raw")
        /\ ~has_autoset[o] => ra_methods_autoset[o] = {}

\* a member, beside an attribute holding the result of its Thunk default
\* and one holding a value the caller wrote
C6_Witness ==
    \E o \in objs : \E n \in Names, m \in Names :
        /\ n \in ra_methods_autoset[o]
        /\ origin[o][m] = "Thunk"
        /\ \E x \in Names : origin[o][x] = "set"

(***************************************************************************)
(* C7                                                                      *)
(***************************************************************************)
\* C7: a write of a Thunk stores the Thunk unforced.  A read of an attribute
\* whose slot holds a Thunk invokes it exactly once and nothing else,
\* returns its result and overwrites the slot with it; no other slot
\* changes and the autoset set does not change; a read made next returns
\* the same result, invokes nothing and changes nothing.
C7_WrittenThunk ==
    [][\A o \in objs : \A n \in Names :
         /\ (Called("set", o, n) /\ last'.value.k = "Thunk")
              => /\ slots'[o][n] = last'.value
                 /\ last'.calls = <<>>
         /\ (Called("get", o, n) /\ slots[o][n].k = "Thunk")
              => /\ last'.ok
                 /\ last'.calls = << <<n, "set">> >>
                 /\ last'.ret = slots[o][n].v
                 /\ slots'[o] = [slots[o] EXCEPT ![n] = Raw(slots[o][n].v)]
                 /\ UNCHANGED <<has_autoset, ra_methods_autoset, EMPTY_SET, origin>>
                 /\ LET r == RA_get(HeapAfter(o), n) IN
                      /\ r.ok
                      /\ r.v = last'.ret
                      /\ r.calls = <<>>
                      /\ r.h = HeapAfter(o)
      ]_vars

\* a read has just forced a written Thunk while a dependent of the
\* attribute is autoset
C7_Witness ==
    /\ last.op = "get"
    /\ last.calls = << <<last.attr, "set">> >>
    /\ slots[last.obj][last.attr] = Raw(thunk_value)
    /\ \E D \in Names :
         Declares(D, last.attr) /\ D \in ra_methods_autoset[last.obj]

(***************************************************************************)
(* C8                                                                      *)
(***************************************************************************)
\* C8: idempotent re-read.  A read of an attribute whose slot holds a
\* realized value returns that value, invokes nothing and leaves every slot
\* and the autoset set unchanged; a read made next returns the same value.
C8_IdempotentReread ==
    [][\A o \in objs : \A n \in Names :
         (Called("get", o, n) /\ slots[o][n].k = "raw")
         => /\ last'.ok
            /\ last'.ret = slots[o][n].v
            /\ last'.calls = <<>>
            /\ InstanceUnchanged
            /\ LET r == RA_get(HeapAfter(o), n) IN
                 r.ok /\ r.v = last'.ret /\ r.calls = <<>>
      ]_vars

\* the second of two reads in a row of a realized attribute that is not at
\* its declared default
C8_Witness ==
    /\ last.op = "get"
    /\ last.ok
    /\ last.calls = <<>>
    /\ last.was # "none"
    /\ last.ret = slots[last.obj][last.attr].v
    /\ last.ret # Attr(last.attr).default.v

(***************************************************************************)
(* C9                                                                      *)
(***************************************************************************)
\* C9: propagation never aborts.  Every write completes, and every delete
\* of an attribute that has a stored slot completes, without raising.
C9_PropagationCompletes ==
    [][\A o \in objs : \A n \in Names :
         /\ Called("set", o, n) => last'.ok
         /\ (Called("delete", o, n) /\ slots[o][n] # NOTHING) => last'.ok
      ]_vars

\* a write went through a diamond: the dependent reachable by two paths was
\* unset on the first and skipped on the second
C9_Witness ==
    /\ last.op = "set"
    /\ last.ok
    /\ Len(last.trace) = 3
    /\ \E D \in Names :
         /\ Count(D, last.trace) = 1
         /\ Cardinality({m \in Names : Declares(D, m) /\ InSeq(m, last.trace)}) = 2

(***************************************************************************)
(* C10                                                                     *)
(***************************************************************************)
\* C10: a delete of an attribute that has no stored slot raises, and changes
\* nothing: no slot, not the autoset set, and no dependent is invalidated.
C10_DeleteUnset ==
    [][\A o \in objs : \A n \in Names :
         (Called("delete", o, n) /\ slots[o][n] = NOTHING)
         => /\ ~last'.ok
            /\ last'.trace = <<>>
            /\ InstanceUnchanged
      ]_vars

\* a delete of an unset attribute has just raised while a dependent of the
\* attribute is autoset
C10_Witness ==
    /\ last.op = "delete"
    /\ ~last.ok
    /\ \E D \in Names :
         /\ Declares(D, last.attr)
         /\ D \in ra_methods_autoset[last.obj]
         /\ slots[last.obj][D].k = "raw"

(***************************************************************************)
(* C11                                                                     *)
(***************************************************************************)
\* C11: a read of an attribute whose slot is unset and which declares no
\* default raises, invokes nothing, and leaves the instance as it was: the
\* attribute stays unset and the autoset set is the same.
C11_ReadUnset ==
    [][\A o \in objs : \A n \in Names :
         (Called("get", o, n) /\ slots[o][n] = NOTHING
                              /\ Attr(n).default = NOTHING)
         => /\ ~last'.ok
            /\ last'.calls = <<>>
            /\ slots'[o][n] = NOTHING
            /\ InstanceUnchanged
      ]_vars

\* a read of an unset attribute without a default has just raised on an
\* instance whose autoset set is not empty
C11_Witness ==
    /\ last.op = "get"
    /\ ~last.ok
    /\ last.calls = <<>>
    /\ Attr(last.attr).default = NOTHING
    /\ slots[last.obj][last.attr] = NOTHING
    /\ has_autoset[last.obj]
    /\ ra_methods_autoset[last.obj] # {}

(***************************************************************************)
(* C12                                                                     *)
(***************************************************************************)
\* C12: evaluation is pull-based.  A write or a delete, cascade included,
\* realizes nothing: afterwards every slot holds what it held, or nothing,
\* or (the written attribute) the written value as it was given, a Thunk
\* still a Thunk.  A read invokes only the computations of the attribute
\* read and of the attributes its Method reads, directly or through theirs.
C12_PullBased ==
    [][\A o \in objs : \A n \in Names :
         /\ Called("set", o, n)
            => /\ slots'[o][n] = last'.value
               /\ \A m \in Names \ {n} : slots'[o][m] \in {slots[o][m], NOTHING}
               /\ \A m \in Names : origin'[o][m] \notin {"Thunk", "Method", "raw"}
                                     \/ origin'[o][m] = origin[o][m]
         /\ Called("delete", o, n)
            => /\ \A m \in Names : slots'[o][m] \in {slots[o][m], NOTHING}
               /\ \A m \in Names : origin'[o][m] \in {origin[o][m], "none"}
         /\ Called("get", o, n)
            => \A k \in 1..Len(last'.calls) :
                 LET m == last'.calls[k][1] IN
                   /\ m = n \/ m \in ReadsOf(n, Len(cls))
                   /\ \/ last'.calls[k][2] = "default" /\ Lazy(m)
                                                       /\ slots[o][m] = NOTHING
                      \/ last'.calls[k][2] = "set" /\ slots[o][m].k = "Thunk"
      ]_vars

\* a Thunk was written to an attribute whose autoset dependent had a cached
\* value: the dependent is unset, not refreshed, and the Thunk is pending
C12_Witness ==
    /\ last.op = "set"
    /\ last.ok
    /\ last.value.k = "Thunk"
    /\ slots[last.obj][last.attr].k = "Thunk"
    /\ last.trace # <<>>
    /\ \A k \in 1..Len(last.trace) : slots[last.obj][last.trace[k]] = NOTHING

(***************************************************************************)
(* C13                                                                     *)
(***************************************************************************)
\* C13: the slot of an attribute changes only in these ways.  Unset to set:
\* by a read, when the attribute has a default, or by a write of it.  Set to
\* unset: by a delete of it, or in the cascade of a write or delete of
\* another attribute while it is autoset.  Set to set: by a write of it, or
\* by a read that forces the Thunk it holds.  So no read unsets a slot, and
\* a write or delete of A changes, besides A's, only slots of attributes
\* reachable from A in the registry.
C13_SlotTransitions ==
    [][\A o \in objs : \A n \in Names :
         LET was == slots[o][n]
             now == slots'[o][n]
         IN  was # now =>
               /\ last'.tick # last.tick
               /\ last'.obj = o
               /\ (was = NOTHING) =>
                     \/ /\ last'.op = "get"
                        /\ Attr(n).default # NOTHING
                        /\ now.k = "raw"
                     \/ Called("set", o, n) /\ now = last'.value
               /\ (now = NOTHING) =>
                     \/ Called("delete", o, n)
                     \/ /\ last'.op \in {"set", "delete"}
                        /\ last'.attr # n
                        /\ Member(Heap(o), n)
                        /\ InSeq(n, last'.trace)
               /\ (was # NOTHING /\ now # NOTHING) =>
                     \/ Called("set", o, n) /\ now = last'.value
                     \/ /\ last'.op = "get"
                        /\ was.k = "Thunk"
                        /\ now = Raw(was.v)
               /\ (last'.op \in {"set", "delete"} /\ last'.attr # n) =>
                     n \in RegistryFrom(ra_relationships, last'.attr, Len(cls))
      ]_vars

\* an explicit delete has just unset the attribute and, by cascade, a chain
\* of two autoset attributes
C13_Witness ==
    /\ last.op = "delete"
    /\ last.ok
    /\ Len(last.trace) = 2
    /\ Declares(last.trace[1], last.attr)
    /\ Declares(last.trace[2], last.trace[1])
    /\ \A n \in {last.attr, last.trace[1], last.trace[2]} :
         slots[last.obj][n] = NOTHING

(***************************************************************************)
(* C14                                                                     *)
(***************************************************************************)
\* C14: instances are isolated.  A read, write or delete on one instance
\* leaves the slots and the autoset set of every other instance of the
\* class as they were, and the shared empty set that stands in for a
\* missing autoset set stays empty.
C14_InstanceIsolation ==
    [][\A o \in objs :
         (last'.tick # last.tick /\ last'.obj = o)
         => /\ \A p \in objs \ {o} :
                 /\ slots'[p] = slots[p]
                 /\ has_autoset'[p] = has_autoset[p]
                 /\ ra_methods_autoset'[p] = ra_methods_autoset[p]
            /\ EMPTY_SET' = EMPTY_SET
            /\ EMPTY_SET' = {}
      ]_vars

\* a write went through on an instance that has no autoset set, to the
\* attribute whose dependent is cached and autoset on the other instance
C14_Witness ==
    /\ last.op = "set"
    /\ last.ok
    /\ ~has_autoset[last.obj]
    /\ \E p \in objs \ {last.obj} : \E D \in Names :
         /\ Declares(D, last.attr)
         /\ has_autoset[p]
         /\ D \in ra_methods_autoset[p]
         /\ slots[p][D] # NOTHING
         /\ slots[p][last.attr] # slots[last.obj][last.attr]

(***************************************************************************)
(* C15                                                                     *)
(***************************************************************************)
\* C15: the registry is read-only once the class is bound.  No read, write
\* or delete, cascade included, adds, removes or changes an entry.
C15_RegistryReadOnly ==
    [][last'.op \in {"get", "set", "delete"}
         => /\ ra_relationships' = ra_relationships
            /\ has_ra_relationships' = has_ra_relationships
      ]_vars

\* a write went through to an attribute that has no entry in the registry
\* (the lookup fell back to the empty set), and it still has none
C15_Witness ==
    /\ last.op = "set"
    /\ last.ok
    /\ ra_relationships # <<>>
    /\ last.attr \notin DOMAIN ra_relationships

(***************************************************************************)
(* C16                                                                     *)
(***************************************************************************)
\* C16: once every attribute of the class is bound, the registry is the
\* reverse of the declared dependencies: Y is in X's entry exactly when Y
\* declares X.  Binding an attribute that lists itself raises, so the class
\* is never defined, and at no time is an attribute in its own entry.
C16_RegistryReverseEdges ==
    /\ status = "defined"
       => /\ DOMAIN ra_relationships \subseteq Names
          /\ \A X \in Names : \A Y \in Names :
               (X \in DOMAIN ra_relationships /\ InSeq(Y, ra_relationships[X]))
               <=> Declares(Y, X)
    /\ \A X \in DOMAIN ra_relationships : ~InSeq(X, ra_relationships[X])
    /\ \A k \in 1..bound :
         Declares(cls[k].name, cls[k].name) => status = "error"

\* a class is defined in which one attribute has two dependents and one
\* attribute two dependencies
C16_Witness ==
    /\ status = "defined"
    /\ \E X \in DOMAIN ra_relationships : Len(ra_relationships[X]) = 2
    /\ \E Y \in Names : Len(Attr(Y).depends) = 2

(***************************************************************************)
(* C17                                                                     *)
(***************************************************************************)
\* C17: no stale derived value.  For every attribute D in the autoset set
\* whose Method reads exactly the dependencies D declares, every declared
\* dependency has a stored slot and D's slot holds what the Method yields
\* over the current slots, a Thunk held by a slot counting as its result.
C17_NoStaleValue ==
    \A o \in objs : \A D \in Names :
        ( /\ has_autoset[o]
          /\ D \in ra_methods_autoset[o]
          /\ Attr(D).is_method
          /\ Attr(D).default.reads = Attr(D).depends )
        => /\ \A A \in Names : Declares(D, A) => slots[o][A] # NOTHING
           /\ slots[o][D] = Raw(MethodValue(Heap(o), D))

\* D is autoset and current over a dependency that is itself a derived
\* attribute the caller has overwritten, after a write upstream of both
C17_Witness ==
    /\ last.op = "set"
    /\ \E D \in Names : \E A \in Names :
         /\ has_autoset[last.obj]
         /\ D \in ra_methods_autoset[last.obj]
         /\ Attr(D).default.reads = Attr(D).depends
         /\ Declares(D, A)
         /\ Attr(A).is_method
         /\ origin[last.obj][A] = "set"
         /\ Declares(A, last.attr)
         /\ slots[last.obj][D] = Raw(MethodValue(Heap(last.obj), D))

(***************************************************************************)
(* C18                                                                     *)
(***************************************************************************)
\* C18: the cascade is transitive and stops at what is not autoset.  When a
\* write or delete of A completes, every attribute reachable from A along
\* registry edges through attributes that were all autoset before the call
\* is unset and out of the autoset set; every other attribute but A keeps
\* its slot and its membership.
C18_TransitiveCascade ==
    [][\A o \in objs : \A A \in Names :
         ((Called("set", o, A) \/ Called("delete", o, A)) /\ last'.ok)
         => LET R == AutosetFrom(Heap(o), A, Len(cls)) IN
              /\ \A n \in R :
                   /\ slots'[o][n] = NOTHING
                   /\ ~Member(HeapAfter(o), n)
              /\ \A n \in Names \ (R \cup {A}) :
                   /\ slots'[o][n] = slots[o][n]
                   /\ Member(HeapAfter(o), n) <=> Member(Heap(o), n)
      ]_vars

\* a write has just unset a chain of two autoset attributes while a
\* dependent that the caller had overwritten, and so was not autoset, kept
\* its value
C18_Witness ==
    /\ last.op = "set"
    /\ last.ok
    /\ \E B \in Names : \E D \in Names : \E C \in Names \ {B} :
         /\ Declares(B, last.attr) /\ Declares(D, B)
         /\ InSeq(B, last.trace) /\ InSeq(D, last.trace)
         /\ slots[last.obj][B] = NOTHING /\ slots[last.obj][D] = NOTHING
         /\ Declares(C, last.attr)
         /\ ~InSeq(C, last.trace)
         /\ origin[last.obj][C] = "set"

(***************************************************************************)
(* C19                                                                     *)
(***************************************************************************)
\* C19: a read of an unset attribute whose default is a Thunk or a raw
\* value returns the default's value, stores it in the slot and leaves the
\* attribute out of the autoset set.  While the slot holds a value that
\* came from such a default, no write or delete of another attribute
\* changes it or makes it autoset, whatever dependencies it declares.
C19_DefaultIsExplicit ==
    [][\A o \in objs : \A n \in Names :
         /\ (Called("get", o, n) /\ slots[o][n] = NOTHING
                                 /\ Attr(n).default.k \in {"Thunk", "raw"})
            => /\ last'.ok
               /\ last'.ret = Attr(n).default.v
               /\ slots'[o][n] = Raw(Attr(n).default.v)
               /\ ~Member(HeapAfter(o), n)
         /\ (last'.tick # last.tick /\ last'.op = "get" /\ last'.obj = o
               /\ slots[o][n] = NOTHING /\ slots'[o][n] # NOTHING
               /\ Attr(n).default.k \in {"Thunk", "raw"})
            => /\ slots'[o][n] = Raw(Attr(n).default.v)
               /\ ~Member(HeapAfter(o), n)
         /\ (last'.tick # last.tick /\ last'.op \in {"set", "delete"}
               /\ last'.obj = o /\ last'.attr # n
               /\ origin[o][n] \in {"Thunk", "raw"})
            => /\ slots'[o][n] = slots[o][n]
               /\ origin'[o][n] = origin[o][n]
               /\ ~Member(HeapAfter(o), n)
      ]_vars

\* a write or delete of a dependency has gone through, and the attribute
\* that declares it still holds the value realized from its default
C19_Witness ==
    /\ last.op \in {"set", "delete"}
    /\ last.ok
    /\ \E n \in Names :
         /\ Declares(n, last.attr)
         /\ origin[last.obj][n] \in {"Thunk", "raw"}
         /\ slots[last.obj][n] = Raw(Attr(n).default.v)
         /\ n \notin ra_methods_autoset[last.obj]

(***************************************************************************)
(* C20                                                                     *)
(***************************************************************************)
\* C20 as stated: once a raw value has been written to a derived attribute,
\* nothing invokes its Method for it again, not even a delete of the
\* attribute followed by a read of it.
C20_Original ==
    [][\A o \in objs : \A D \in Names :
         (Called("set", o, D) /\ Attr(D).is_method /\ last'.value.k = "raw")
         => LET d == RA_delete(HeapAfter(o), D, <<>>)
                g == RA_get(d.h, D)
            IN  ~InSeq(<<D, "default">>, g.calls)
      ]_vars

\* C20: a derived attribute keeps its Method when a raw value is written to
\* it.  A read right after the write returns the written value and invokes
\* nothing; a delete of the attribute then goes through, and the read after
\* it invokes the attribute's Method, once.
C20_KeepsBinding ==
    [][\A o \in objs : \A D \in Names :
         (Called("set", o, D) /\ Attr(D).is_method /\ last'.value.k = "raw")
         => LET r == RA_get(HeapAfter(o), D)
                d == RA_delete(HeapAfter(o), D, <<>>)
                g == RA_get(d.h, D)
            IN  /\ r.ok /\ r.v = last'.value.v /\ r.calls = <<>>
                /\ d.ok
                /\ Count(<<D, "default">>, g.calls) = 1
      ]_vars

\* a raw value has just been written over the computed value of a derived
\* attribute
C20_Witness ==
    /\ last.op = "set"
    /\ last.ok
    /\ last.value.k = "raw"
    /\ Attr(last.attr).is_method
    /\ last.was = "Method"
    /\ slots[last.obj][last.attr] = last.value
    /\ last.attr \notin ra_methods_autoset[last.obj]

(***************************************************************************)
(* C21                                                                     *)
(***************************************************************************)
\* C21: LazyDesc behaves as a reactive attribute without dependencies.
\* Under the same reads and writes over the instances of a class, every
\* read of the LazyDesc fails or returns as the read of the reactive
\* attribute does, returns the same value, and invokes the deferred
\* computation as many times.
C21_LazyDescRefines ==
    last.op = "get"
    => /\ lazy_last.ok = last.ok
       /\ lazy_last.ret = last.ret
       /\ lazy_last.ncalls = Len(last.calls)

(***************************************************************************)
(* C22                                                                     *)
(***************************************************************************)
\* C22: every cascade ends, also over a registry with a cycle between two
\* Method attributes.  Every write returns, every delete of a stored
\* attribute returns, and within one write or delete no attribute is unset
\* by the cascade twice and the cascade unsets no more attributes than
\* were autoset when the call began.
C22_CascadeBounded ==
    [][\A o \in objs : \A n \in Names :
         /\ Called("set", o, n) => last'.ok
         /\ (Called("delete", o, n) /\ slots[o][n] # NOTHING) => last'.ok
         /\ (Called("set", o, n) \/ Called("delete", o, n))
            => /\ \A m \in Names : Count(m, last'.trace) <= 1
               /\ Len(last'.trace)
                    <= Cardinality({m \in Names : Member(Heap(o), m)})
      ]_vars

\* a write has just unset two autoset attributes that are each other's
\* dependents
C22_Witness ==
    /\ last.op = "set"
    /\ last.ok
    /\ \E A \in DOMAIN ra_relationships : \E B \in DOMAIN ra_relationships :
         /\ A # B
         /\ InSeq(B, ra_relationships[A])
         /\ InSeq(A, ra_relationships[B])
         /\ InSeq(A, last.trace) /\ InSeq(B, last.trace)
         /\ slots[last.obj][A] = NOTHING /\ slots[last.obj][B] = NOTHING

(***************************************************************************)
(* C23                                                                     *)
(***************************************************************************)
\* C23: every member of an instance's autoset set is an attribute with a
\* Method default whose slot is set and holds a realized value, not a
\* Thunk; and the shared empty set has no member at all.
C23_AutosetMembersRealized ==
    \A o \in objs : \A n \in Names :
        (n \in ra_methods_autoset[o] \/ n \in EMPTY_SET)
        => /\ has_autoset[o]
           /\ n \in ra_methods_autoset[o]
           /\ Attr(n).is_method
           /\ slots[o][n] # NOTHING
           /\ slots[o][n].k = "raw"

\* a Thunk has just been written over the computed value of an autoset
\* attribute, which left the set, while another attribute is still a member
\* and holds its computed value
C23_Witness ==
    \E o \in objs : \E n \in Names, m \in Names :
        /\ has_autoset[o]
        /\ n \in ra_methods_autoset[o]
        /\ slots[o][n].k = "raw"
        /\ last.op = "set" /\ last.obj = o /\ last.attr = m
        /\ last.was = "Method"
        /\ Attr(m).is_method /\ slots[o][m].k = "Thunk"
        /\ m \notin ra_methods_autoset[o]

(***************************************************************************)
(* C24                                                                     *)
(***************************************************************************)
\* C24: in lazyfield every write returns and every delete of a stored
\* attribute returns, and after it every attribute that declares the
\* written or deleted one is unset, whether its value had been computed by
\* its Method or written by the caller; the next read of such a dependent
\* invokes its Method.
C24_LazyFieldUnsetsAll ==
    [][\A o \in objs : \A A \in Names :
         /\ Called("set", o, A) => last'.ok
         /\ (Called("delete", o, A) /\ slots[o][A] # NOTHING) => last'.ok
         /\ ((Called("set", o, A) \/ Called("delete", o, A)) /\ last'.ok)
            => \A D \in Names :
                 Declares(D, A)
                 => /\ slots'[o][D] = NOTHING
                    /\ InSeq(D, last'.trace)
                    /\ Attr(D).is_method
                       => Count(<<D, "default">>,
                                LF_get(HeapAfter(o), D).calls) = 1
      ]_vars

\* a write has just unset a dependent that held a value the caller had
\* written, after calling delattr on another dependent of the same attribute
C24_Witness ==
    /\ last.op = "set"
    /\ last.ok
    /\ \E D \in last.written : \E E \in Names \ {D} :
         /\ Declares(D, last.attr)
         /\ slots[last.obj][D] = NOTHING
         /\ Declares(E, last.attr)
         /\ InSeq(E, last.trace)
         /\ last.trace[1] = E

====
